---- MODULE Spec2Model ----
(***************************************************************************)
(* Model of lib/pkgtailor.js: the tailoring state machine (state file,    *)
(* decision table, tailoring run), the command line parser and the        *)
(* environment deletion predicates.                                        *)
(*                                                                         *)
(* A file path is a sequence of one-character strings, so that the regular *)
(* expressions of the predicates are evaluated character by character.     *)
(***************************************************************************)
EXTENDS Integers, Sequences, FiniteSets, TLC

\* ------------------------------------------------------------------ bounds
MaxArgs == 2
MaxFiles == 3

Procs == {1, 2}

\* ------------------------------------------------------------- state tokens
cStateNotTailored == "untailored"
cStateUndefined == "undefined"
cStateLambdaWithNode4 == "AWS Lambda with Node 4.x"
cStateLambdaWithNode6 == "AWS Lambda with Node 6.x"
cStates == {cStateNotTailored, cStateUndefined, cStateLambdaWithNode4, cStateLambdaWithNode6}

\* a state file content outside the closed set
UnknownToken == "garbage"

\* ------------------------------------------------------------ path helpers
Digits == {"0", "1", "2", "3", "4", "5", "6", "7", "8", "9"}

EndsWith(s, suf) ==
    /\ Len(s) >= Len(suf)
    /\ SubSeq(s, Len(s) - Len(suf) + 1, Len(s)) = suf

\* /((\/lib)|(\/linux-x86-32))\/[^\/]+$/
c32BitPathPatternWrong(fn) ==
    \E i \in 1..Len(fn) :
        /\ fn[i] = "/"
        /\ i < Len(fn)
        /\ \A j \in (i + 1)..Len(fn) : fn[j] # "/"
        /\ EndsWith(SubSeq(fn, 1, i - 1), <<"/", "l", "i", "b">>)

c32BitPathPattern(fn) ==
    \E i \in 1..Len(fn) :
        /\ fn[i] = "/"
        /\ i < Len(fn)
        /\ \A j \in (i + 1)..Len(fn) : fn[j] # "/"
        /\ \/ EndsWith(SubSeq(fn, 1, i - 1), <<"/", "l", "i", "b">>)
           \/ EndsWith(SubSeq(fn, 1, i - 1),
                       <<"/", "l", "i", "n", "u", "x", "-", "x", "8", "6", "-", "3", "2">>)

\* /_(4[^K]|[^4][0-9])\.node$/ with K the second digit of the kept tag
AbiTagPatternWrong(fn, k) ==
    /\ Len(fn) >= 8
    /\ SubSeq(fn, Len(fn) - 4, Len(fn)) = <<".", "n", "o", "d", "e">>
    /\ fn[Len(fn) - 7] = "_"
    /\ fn[Len(fn) - 5] # k

AbiTagPattern(fn, k) ==
    /\ Len(fn) >= 8
    /\ SubSeq(fn, Len(fn) - 4, Len(fn)) = <<".", "n", "o", "d", "e">>
    /\ fn[Len(fn) - 7] = "_"
    /\ \/ fn[Len(fn) - 6] = "4" /\ fn[Len(fn) - 5] # k
       \/ fn[Len(fn) - 6] # "4" /\ fn[Len(fn) - 5] \in Digits

\* ------------------------------------------------------------- environments
cLambdaV4EnvDef == "cLambdaV4EnvDef"
cLambdaV6EnvDef == "cLambdaV6EnvDef"
EnvUndefined == "undefined environment"
EnvDefs == {cLambdaV4EnvDef, cLambdaV6EnvDef}

EnvName(e) ==
    IF e = cLambdaV4EnvDef THEN cStateLambdaWithNode4 ELSE cStateLambdaWithNode6

cLambdaV4DeleteFilePredicate(fn) ==
    AbiTagPattern(fn, "6") \/ c32BitPathPattern(fn)

cLambdaV6DeleteFilePredicate(fn) ==
    AbiTagPattern(fn, "8") \/ c32BitPathPattern(fn)

deleteFilePredicate(e, fn) ==
    IF e = cLambdaV4EnvDef THEN cLambdaV4DeleteFilePredicate(fn)
                           ELSE cLambdaV6DeleteFilePredicate(fn)

\* ------------------------------------------------- files of the dependency
\* the files the enumerator finds below the dependency folder, in its order
FilePool ==
    << <<"/", "d", "/", "a", "_", "4", "4", ".", "n", "o", "d", "e">>,
       <<"/", "d", "/", "a", "_", "4", "8", ".", "n", "o", "d", "e">>,
       <<"/", "d", "/", "l", "i", "b", "/", "a", "_", "4", "6", ".", "n", "o", "d", "e">>,
       <<"/", "d", "/", "a", "_", "4", "6", ".", "n", "o", "d", "e">>,
       <<"/", "d", "/", "l", "i", "n", "u", "x", "-", "x", "8", "6", "-", "3", "2", "/",
         "a", "_", "4", "8", ".", "n", "o", "d", "e">> >>

FileIds == 1..MaxFiles
FilePath(i) == FilePool[i]

\* --------------------------------------------------------------- command line
cCmdLineOptionsDef == {"--help", "--dryRun", "--state", "--AwsLambdaV4", "--AwsLambdaV6"}
UnknownOption == "--bogus"
Flags == cCmdLineOptionsDef \cup {UnknownOption}
ArgvSet == UNION {[1..n -> Flags] : n \in 0..MaxArgs}

Range(s) == {s[i] : i \in 1..Len(s)}

defaultOptions == [environment |-> EnvUndefined, dryRun |-> FALSE]

lookupOption(option) == option \in cCmdLineOptionsDef

\* the handlers that only set an option
handlerWrong(option, opts) ==
    IF option = "--AwsLambdaV4" THEN [opts EXCEPT !.environment = cLambdaV4EnvDef]
    ELSE IF option = "--AwsLambdaV6" THEN [opts EXCEPT !.environment = cLambdaV6EnvDef]
    ELSE opts

handlerFirstWins(option, opts) ==
    IF option = "--dryRun" THEN [opts EXCEPT !.dryRun = TRUE]
    ELSE IF opts.environment # EnvUndefined THEN opts
    ELSE IF option = "--AwsLambdaV4" THEN [opts EXCEPT !.environment = cLambdaV4EnvDef]
    ELSE IF option = "--AwsLambdaV6" THEN [opts EXCEPT !.environment = cLambdaV6EnvDef]
    ELSE opts

handler(option, opts) ==
    IF option = "--dryRun" THEN [opts EXCEPT !.dryRun = TRUE]
    ELSE IF option = "--AwsLambdaV4" THEN [opts EXCEPT !.environment = cLambdaV4EnvDef]
    ELSE IF option = "--AwsLambdaV6" THEN [opts EXCEPT !.environment = cLambdaV6EnvDef]
    ELSE opts

\* printHelpAndExit(exitCode): args is the argument list of the call
printHelpAndExitZero(args) ==
    IF args = <<>> THEN 0 ELSE args[1]

printHelpAndExit(args) ==
    IF args = <<>> \/ args[1] = 0 THEN 1 ELSE args[1]

\* the loop of parseOptions: the options set so far and how the loop ended
RECURSIVE parseLoopStateContinues(_, _, _)
parseLoopStateContinues(args, i, opts) ==
    IF i > Len(args) THEN [options |-> opts, exit |-> "none", option |-> "", code |-> 0]
    ELSE IF ~lookupOption(args[i])
        THEN [options |-> opts, exit |-> "unknown", option |-> args[i],
              code |-> printHelpAndExit(<<>>)]
    ELSE IF args[i] = "--help"
        THEN [options |-> opts, exit |-> "help", option |-> args[i],
              code |-> printHelpAndExit(<<0>>)]
    ELSE parseLoopStateContinues(args, i + 1, handler(args[i], opts))

RECURSIVE parseLoop(_, _, _)
parseLoop(args, i, opts) ==
    IF i > Len(args) THEN [options |-> opts, exit |-> "none", option |-> "", code |-> 0]
    ELSE IF ~lookupOption(args[i])
        THEN [options |-> opts, exit |-> "unknown", option |-> args[i],
              code |-> printHelpAndExit(<<>>)]
    ELSE IF args[i] = "--help"
        THEN [options |-> opts, exit |-> "help", option |-> args[i],
              code |-> printHelpAndExit(<<0>>)]
    ELSE IF args[i] = "--state"
        THEN [options |-> opts, exit |-> "state", option |-> args[i], code |-> 0]
    ELSE parseLoop(args, i + 1, handler(args[i], opts))

parseOptions(args) ==
    parseLoop(IF Len(args) < 1 THEN <<"--help">> ELSE args, 1, defaultOptions)

\* ------------------------------------------------------------------- output
Msg(t, a, b, f, dry) == [t |-> t, a |-> a, b |-> b, f |-> f, dry |-> dry]

\* the line printTailoringStatusAndExit prints
printTailoringStatus(state) ==
    IF state = cStateNotTailored
    THEN Msg("TAILORING STATE", "has not been tailored", "", 0, FALSE)
    ELSE Msg("TAILORING STATE", "has been tailored for", state, 0, FALSE)

printResult(opts, e) ==
    (IF e # "none" THEN <<Msg("Error encountered", e, "", 0, FALSE)>> ELSE <<>>)
    \o <<Msg("result",
             IF opts.environment # EnvUndefined THEN EnvName(opts.environment) ELSE "",
             IF e = "none" THEN "SUCCEEDED" ELSE "FAILED",
             0, opts.dryRun)>>

\* -------------------------------------------------------------------- state
VARIABLES
    stateFile,                \* content of the state file
    stateFileAccess,          \* "ok", "missing", "noaccess" or "unreadable"
    installed,                \* the files of the dependency before any tailoring
    files,                    \* the files of the dependency that exist now
    pc,                       \* position of each invocation
    argv,                     \* process.argv beyond exe and script name
    options,                  \* the global options of the invocation
    persistedTailoringState,  \* the state read at start
    filesToDelete,            \* candidate list of the tailoring run
    idx,                      \* position of forEach in filesToDelete
    out,                      \* console output of the invocation
    exitCode,                 \* process exit code
    caught,                   \* the error the top level caught, or "none"
    writes,                   \* the values this invocation wrote to the state file
    unlinked,                 \* the files this invocation deleted
    crashed,                  \* an earlier invocation ended in a failed deletion
    succeededFor,             \* environment name of an earlier successful run
    notFound,                 \* an earlier invocation failed to locate or scan
    fn, penv, pres            \* input and result of a predicate evaluation

shared == <<stateFile, stateFileAccess, installed, files>>
locals == <<pc, argv, options, persistedTailoringState, filesToDelete, idx, out,
            exitCode, caught, writes, unlinked>>
ghosts == <<crashed, succeededFor, notFound>>
predv == <<fn, penv, pres>>
vars == <<shared, locals, ghosts, predv>>

NoState == "not read"
NoneYet == "none"

InitLocals ==
    /\ pc = [p \in Procs |-> "idle"]
    /\ argv = [p \in Procs |-> <<>>]
    /\ options = [p \in Procs |-> defaultOptions]
    /\ persistedTailoringState = [p \in Procs |-> NoState]
    /\ filesToDelete = [p \in Procs |-> <<>>]
    /\ idx = [p \in Procs |-> 1]
    /\ out = [p \in Procs |-> <<>>]
    /\ exitCode = [p \in Procs |-> 0]
    /\ caught = [p \in Procs |-> "none"]
    /\ writes = [p \in Procs |-> <<>>]
    /\ unlinked = [p \in Procs |-> <<>>]

Init ==
    /\ stateFile \in cStates \cup {UnknownToken}
    /\ stateFileAccess \in {"ok", "missing", "noaccess", "unreadable"}
    /\ installed \in SUBSET FileIds
    /\ files = installed
    /\ InitLocals
    /\ crashed = FALSE
    /\ succeededFor = NoneYet
    /\ notFound = FALSE
    /\ fn = <<>> /\ penv = cLambdaV4EnvDef /\ pres = "unset"

\* ------------------------------------------------------------------ helpers
\* an exception reaches the catch of the top level: printResult(e), then the
\* process ends
Throw(p, e) ==
    /\ caught' = [caught EXCEPT ![p] = e]
    /\ out' = [out EXCEPT ![p] = @ \o printResult(options[p], e)]
    /\ pc' = [pc EXCEPT ![p] = "exit"]

\* scanFolder: the files that exist, in enumeration order
scanFolder(present) ==
    SelectSeq([i \in FileIds |-> i], LAMBDA i : i \in present)

\* ------------------------------------------------------------------ actions
\* a new invocation of the script; invocations run one after the other
Start(p, args) ==
    /\ \A q \in Procs : pc[q] = "idle"
    /\ pc' = [pc EXCEPT ![p] = "read"]
    /\ argv' = [argv EXCEPT ![p] = args]
    /\ UNCHANGED <<options, persistedTailoringState, filesToDelete, idx, out,
                   exitCode, caught, writes, unlinked>>
    /\ UNCHANGED <<shared, ghosts, predv>>

\* persistedTailoringState = tryReadStateFile()
ReadStateFileLenient(p) ==
    /\ pc[p] = "read"
    /\ persistedTailoringState' =
           [persistedTailoringState EXCEPT ![p] =
               IF stateFileAccess = "ok" THEN stateFile ELSE cStateNotTailored]
    /\ pc' = [pc EXCEPT ![p] = "parse"]
    /\ UNCHANGED <<caught, out>>
    /\ UNCHANGED <<argv, options, filesToDelete, idx, exitCode, writes, unlinked>>
    /\ UNCHANGED <<shared, ghosts, predv>>

tryReadStateFileLocked(p) ==
    /\ pc[p] = "read"
    /\ \A q \in Procs \ {p} : pc[q] \in {"idle", "read", "exit"}
    /\ IF stateFileAccess = "ok"
       THEN /\ persistedTailoringState' =
                   [persistedTailoringState EXCEPT ![p] = stateFile]
            /\ pc' = [pc EXCEPT ![p] = "parse"]
            /\ UNCHANGED <<caught, out>>
       ELSE /\ Throw(p, "state file is not accessable")
            /\ UNCHANGED persistedTailoringState
    /\ UNCHANGED <<argv, options, filesToDelete, idx, exitCode, writes, unlinked>>
    /\ UNCHANGED <<shared, ghosts, predv>>

tryReadStateFile(p) ==
    /\ pc[p] = "read"
    /\ IF stateFileAccess = "ok"
       THEN /\ persistedTailoringState' =
                   [persistedTailoringState EXCEPT ![p] = stateFile]
            /\ pc' = [pc EXCEPT ![p] = "parse"]
            /\ UNCHANGED <<caught, out>>
       ELSE /\ Throw(p, "state file is not accessable")
            /\ UNCHANGED persistedTailoringState
    /\ UNCHANGED <<argv, options, filesToDelete, idx, exitCode, writes, unlinked>>
    /\ UNCHANGED <<shared, ghosts, predv>>

\* parseOptions(), with the handlers that end the process
ParseOptions(p) ==
    /\ pc[p] = "parse"
    /\ LET r == parseOptions(argv[p]) IN
        /\ options' = [options EXCEPT ![p] = r.options]
        /\ exitCode' = [exitCode EXCEPT ![p] = r.code]
        /\ CASE r.exit = "none" ->
                  /\ pc' = [pc EXCEPT ![p] = "decide"]
                  /\ UNCHANGED out
             [] r.exit = "help" ->
                  /\ pc' = [pc EXCEPT ![p] = "exit"]
                  /\ out' = [out EXCEPT ![p] = @ \o <<Msg("Usage", "", "", 0, FALSE)>>]
             [] r.exit = "unknown" ->
                  /\ pc' = [pc EXCEPT ![p] = "exit"]
                  /\ out' = [out EXCEPT ![p] = @ \o
                               <<Msg("unknown command line option", r.option, "", 0, FALSE),
                                 Msg("Usage", "", "", 0, FALSE)>>]
             [] r.exit = "state" ->
                  /\ pc' = [pc EXCEPT ![p] = "exit"]
                  /\ out' = [out EXCEPT ![p] = @ \o
                               <<printTailoringStatus(persistedTailoringState[p])>>]
    /\ UNCHANGED <<argv, persistedTailoringState, filesToDelete, idx, caught,
                   writes, unlinked>>
    /\ UNCHANGED <<shared, ghosts, predv>>

\* the decision table of the top level, up to the first step of tailorModule
DecideRetailor(p) ==
    /\ pc[p] = "decide"
    /\ LET s == persistedTailoringState[p]
           env == options[p].environment
       IN
       IF s \notin cStates THEN
           /\ out' = [out EXCEPT ![p] = @ \o <<Msg("ERROR unknown tailoring state", s, "", 0, FALSE)>>]
           /\ pc' = [pc EXCEPT ![p] = "exit"]
           /\ UNCHANGED caught
       ELSE IF s = cStateUndefined THEN
           /\ out' = [out EXCEPT ![p] = @ \o <<Msg("ERROR undefined state, re-install", "", "", 0, FALSE)>>]
           /\ pc' = [pc EXCEPT ![p] = "exit"]
           /\ UNCHANGED caught
       ELSE IF s # cStateNotTailored /\ env = EnvUndefined THEN
           Throw(p, "TypeError")
       ELSE IF s # cStateNotTailored /\ s = EnvName(env) THEN
           /\ out' = [out EXCEPT ![p] = @ \o <<Msg("already tailored", s, "", 0, FALSE)>>]
           /\ pc' = [pc EXCEPT ![p] = "exit"]
           /\ UNCHANGED caught
       ELSE IF env = EnvUndefined THEN
           Throw(p, "no environment for tailoring specified.")
       ELSE
           /\ pc' = [pc EXCEPT ![p] = "locate"]
           /\ UNCHANGED <<out, caught>>
    /\ UNCHANGED <<argv, options, persistedTailoringState, filesToDelete, idx,
                   exitCode, writes, unlinked>>
    /\ UNCHANGED <<shared, ghosts, predv>>

Decide(p) ==
    /\ pc[p] = "decide"
    /\ LET s == persistedTailoringState[p]
           env == options[p].environment
       IN
       IF s \notin cStates THEN
           /\ out' = [out EXCEPT ![p] = @ \o <<Msg("ERROR unknown tailoring state", s, "", 0, FALSE)>>]
           /\ pc' = [pc EXCEPT ![p] = "exit"]
           /\ UNCHANGED caught
       ELSE IF s = cStateUndefined THEN
           /\ out' = [out EXCEPT ![p] = @ \o <<Msg("ERROR undefined state, re-install", "", "", 0, FALSE)>>]
           /\ pc' = [pc EXCEPT ![p] = "exit"]
           /\ UNCHANGED caught
       ELSE IF s # cStateNotTailored THEN
           \* options.environment.name of an undefined environment
           IF env = EnvUndefined THEN
               Throw(p, "TypeError")
           ELSE IF s = EnvName(env) THEN
               /\ out' = [out EXCEPT ![p] = @ \o <<Msg("already tailored", s, "", 0, FALSE)>>]
               /\ pc' = [pc EXCEPT ![p] = "exit"]
               /\ UNCHANGED caught
           ELSE
               /\ out' = [out EXCEPT ![p] = @ \o
                            <<Msg("ERROR already tailored, re-install to tailor", s, EnvName(env), 0, FALSE)>>]
               /\ pc' = [pc EXCEPT ![p] = "exit"]
               /\ UNCHANGED caught
       ELSE IF env = EnvUndefined THEN
           \* tailorModule
           Throw(p, "no environment for tailoring specified.")
       ELSE
           /\ pc' = [pc EXCEPT ![p] = "locate"]
           /\ UNCHANGED <<out, caught>>
    /\ UNCHANGED <<argv, options, persistedTailoringState, filesToDelete, idx,
                   exitCode, writes, unlinked>>
    /\ UNCHANGED <<shared, ghosts, predv>>

LocateErrors == {"Could not locate 'oneagent-dependency' module", "scanFolder failed"}

\* tailorModule: locateDependencyModule, scanFolder, filter
LocateCommitFirst(p) ==
    /\ pc[p] = "locate"
    /\ \E found \in BOOLEAN, scanned \in BOOLEAN :
        IF ~found THEN
            /\ Throw(p, "Could not locate 'oneagent-dependency' module")
            /\ stateFile' = cStateUndefined
            /\ UNCHANGED <<filesToDelete, idx>>
        ELSE IF ~scanned THEN
            /\ Throw(p, "scanFolder failed")
            /\ stateFile' = cStateUndefined
            /\ UNCHANGED <<filesToDelete, idx>>
        ELSE
            /\ filesToDelete' = [filesToDelete EXCEPT ![p] =
                   SelectSeq(scanFolder(files),
                             LAMBDA i : deleteFilePredicate(options[p].environment, FilePath(i)))]
            /\ idx' = [idx EXCEPT ![p] = 1]
            /\ out' = [out EXCEPT ![p] = @ \o
                         <<Msg("Tailoring npm module for environment",
                               EnvName(options[p].environment), "", 0, FALSE)>>]
            /\ pc' = [pc EXCEPT ![p] = IF options[p].dryRun THEN "dry" ELSE "undef"]
            /\ UNCHANGED <<caught, stateFile>>
    /\ UNCHANGED <<argv, options, persistedTailoringState, exitCode, writes, unlinked>>
    /\ UNCHANGED <<stateFileAccess, installed, files, ghosts, predv>>

LocateAllFiles(p) ==
    /\ pc[p] = "locate"
    /\ \E found \in BOOLEAN, scanned \in BOOLEAN :
        IF ~found THEN
            /\ Throw(p, "Could not locate 'oneagent-dependency' module")
            /\ UNCHANGED <<filesToDelete, idx>>
        ELSE IF ~scanned THEN
            /\ Throw(p, "scanFolder failed")
            /\ UNCHANGED <<filesToDelete, idx>>
        ELSE
            /\ filesToDelete' = [filesToDelete EXCEPT ![p] =
                   SelectSeq(scanFolder(files),
                             LAMBDA i : TRUE)]
            /\ idx' = [idx EXCEPT ![p] = 1]
            /\ out' = [out EXCEPT ![p] = @ \o
                         <<Msg("Tailoring npm module for environment",
                               EnvName(options[p].environment), "", 0, FALSE)>>]
            /\ pc' = [pc EXCEPT ![p] = IF options[p].dryRun THEN "dry" ELSE "undef"]
            /\ UNCHANGED caught
    /\ UNCHANGED <<argv, options, persistedTailoringState, exitCode, writes, unlinked>>
    /\ UNCHANGED <<shared, ghosts, predv>>

Locate(p) ==
    /\ pc[p] = "locate"
    /\ \E found \in BOOLEAN, scanned \in BOOLEAN :
        IF ~found THEN
            /\ Throw(p, "Could not locate 'oneagent-dependency' module")
            /\ UNCHANGED <<filesToDelete, idx>>
        ELSE IF ~scanned THEN
            /\ Throw(p, "scanFolder failed")
            /\ UNCHANGED <<filesToDelete, idx>>
        ELSE
            /\ filesToDelete' = [filesToDelete EXCEPT ![p] =
                   SelectSeq(scanFolder(files),
                             LAMBDA i : deleteFilePredicate(options[p].environment, FilePath(i)))]
            /\ idx' = [idx EXCEPT ![p] = 1]
            /\ out' = [out EXCEPT ![p] = @ \o
                         <<Msg("Tailoring npm module for environment",
                               EnvName(options[p].environment), "", 0, FALSE)>>]
            /\ pc' = [pc EXCEPT ![p] = IF options[p].dryRun THEN "dry" ELSE "undef"]
            /\ UNCHANGED caught
    /\ UNCHANGED <<argv, options, persistedTailoringState, exitCode, writes, unlinked>>
    /\ UNCHANGED <<shared, ghosts, predv>>

\* the dry run branch of tailorModule: one accessSync of forEach
DryRunCheck(p) ==
    /\ pc[p] = "dry"
    /\ idx[p] <= Len(filesToDelete[p])
    /\ LET f == filesToDelete[p][idx[p]] IN
       \E ok \in BOOLEAN :
        IF ok /\ f \in files THEN
            /\ out' = [out EXCEPT ![p] = @ \o <<Msg("  file", "", "", f, FALSE)>>]
            /\ idx' = [idx EXCEPT ![p] = @ + 1]
            /\ UNCHANGED <<pc, caught>>
        ELSE
            /\ Throw(p, "accessSync failed")
            /\ UNCHANGED idx
    /\ UNCHANGED <<argv, options, persistedTailoringState, filesToDelete,
                   exitCode, writes, unlinked>>
    /\ UNCHANGED <<shared, ghosts, predv>>

\* the dry run branch is through: tailorModule returns, printResult()
DryRunDone(p) ==
    /\ pc[p] = "dry"
    /\ idx[p] > Len(filesToDelete[p])
    /\ out' = [out EXCEPT ![p] = @ \o printResult(options[p], "none")]
    /\ pc' = [pc EXCEPT ![p] = "exit"]
    /\ UNCHANGED <<argv, options, persistedTailoringState, filesToDelete, idx,
                   exitCode, caught, writes, unlinked>>
    /\ UNCHANGED <<shared, ghosts, predv>>

\* writeStateFile(state) of invocation p, which succeeds or throws; on success
\* the invocation goes on to next and prints msgs
writeStateFile(p, state, next, msgs) ==
    \E ok \in BOOLEAN :
        IF ok THEN
            /\ stateFile' = state
            /\ writes' = [writes EXCEPT ![p] = Append(@, state)]
            /\ pc' = [pc EXCEPT ![p] = next]
            /\ out' = [out EXCEPT ![p] = @ \o msgs]
            /\ UNCHANGED caught
        ELSE
            /\ Throw(p, "writeFileSync failed")
            /\ UNCHANGED <<stateFile, writes>>

\* writeStateFile(cStateUndefined), the first step of the destructive branch
WriteUndefinedSkipped(p) ==
    /\ pc[p] = "undef"
    /\ pc' = [pc EXCEPT ![p] = "delete"]
    /\ UNCHANGED <<stateFile, writes, caught, out>>
    /\ UNCHANGED <<argv, options, persistedTailoringState, filesToDelete, idx,
                   exitCode, unlinked>>
    /\ UNCHANGED <<stateFileAccess, installed, files, ghosts, predv>>

WriteUndefined(p) ==
    /\ pc[p] = "undef"
    /\ writeStateFile(p, cStateUndefined, "delete", <<>>)
    /\ UNCHANGED <<argv, options, persistedTailoringState, filesToDelete, idx,
                   exitCode, unlinked>>
    /\ UNCHANGED <<stateFileAccess, installed, files, ghosts, predv>>

\* one round of forEach: log, then fs.unlinkSync(fn)
UnlinkKeepsGoing(p) ==
    /\ pc[p] = "delete"
    /\ idx[p] <= Len(filesToDelete[p])
    /\ LET f == filesToDelete[p][idx[p]]
           logged == Append(out[p], Msg("  deleting file", "", "", f, FALSE))
       IN
       \E ok \in BOOLEAN :
        IF ok /\ f \in files THEN
            /\ files' = files \ {f}
            /\ unlinked' = [unlinked EXCEPT ![p] = Append(@, f)]
            /\ out' = [out EXCEPT ![p] = logged]
            /\ idx' = [idx EXCEPT ![p] = @ + 1]
            /\ UNCHANGED <<pc, caught>>
        ELSE
            /\ caught' = [caught EXCEPT ![p] = "unlinkSync failed"]
            /\ out' = [out EXCEPT ![p] = logged]
            /\ idx' = [idx EXCEPT ![p] = @ + 1]
            /\ UNCHANGED <<files, unlinked, pc>>
    /\ UNCHANGED <<argv, options, persistedTailoringState, filesToDelete,
                   exitCode, writes>>
    /\ UNCHANGED <<stateFile, stateFileAccess, installed, ghosts, predv>>

Unlink(p) ==
    /\ pc[p] = "delete"
    /\ idx[p] <= Len(filesToDelete[p])
    /\ LET f == filesToDelete[p][idx[p]]
           logged == Append(out[p], Msg("  deleting file", "", "", f, FALSE))
       IN
       \E ok \in BOOLEAN :
        IF ok /\ f \in files THEN
            /\ files' = files \ {f}
            /\ unlinked' = [unlinked EXCEPT ![p] = Append(@, f)]
            /\ out' = [out EXCEPT ![p] = logged]
            /\ idx' = [idx EXCEPT ![p] = @ + 1]
            /\ UNCHANGED <<pc, caught>>
        ELSE
            /\ caught' = [caught EXCEPT ![p] = "unlinkSync failed"]
            /\ out' = [out EXCEPT ![p] = logged \o printResult(options[p], "unlinkSync failed")]
            /\ pc' = [pc EXCEPT ![p] = "exit"]
            /\ UNCHANGED <<files, unlinked, idx>>
    /\ UNCHANGED <<argv, options, persistedTailoringState, filesToDelete,
                   exitCode, writes>>
    /\ UNCHANGED <<stateFile, stateFileAccess, installed, ghosts, predv>>

\* forEach is through: writeStateFile(options.environment.name), printResult()
WriteFinalEarly(p) ==
    /\ pc[p] = "delete"
    /\ writeStateFile(p, EnvName(options[p].environment), "exit",
                      printResult(options[p], "none"))
    /\ UNCHANGED <<argv, options, persistedTailoringState, filesToDelete, idx,
                   exitCode, unlinked>>
    /\ UNCHANGED <<stateFileAccess, installed, files, ghosts, predv>>

WriteFinalUntailored(p) ==
    /\ pc[p] = "delete"
    /\ idx[p] > Len(filesToDelete[p])
    /\ writeStateFile(p, cStateNotTailored, "exit", printResult(options[p], "none"))
    /\ UNCHANGED <<argv, options, persistedTailoringState, filesToDelete, idx,
                   exitCode, unlinked>>
    /\ UNCHANGED <<stateFileAccess, installed, files, ghosts, predv>>

WriteFinal(p) ==
    /\ pc[p] = "delete"
    /\ idx[p] > Len(filesToDelete[p])
    /\ writeStateFile(p, EnvName(options[p].environment), "exit",
                      printResult(options[p], "none"))
    /\ UNCHANGED <<argv, options, persistedTailoringState, filesToDelete, idx,
                   exitCode, unlinked>>
    /\ UNCHANGED <<stateFileAccess, installed, files, ghosts, predv>>

\* the process has ended; what it leaves behind is the state file and the files
Terminate(p) ==
    /\ pc[p] = "exit"
    /\ pc' = [pc EXCEPT ![p] = "idle"]
    /\ argv' = [argv EXCEPT ![p] = <<>>]
    /\ options' = [options EXCEPT ![p] = defaultOptions]
    /\ persistedTailoringState' = [persistedTailoringState EXCEPT ![p] = NoState]
    /\ filesToDelete' = [filesToDelete EXCEPT ![p] = <<>>]
    /\ idx' = [idx EXCEPT ![p] = 1]
    /\ out' = [out EXCEPT ![p] = <<>>]
    /\ exitCode' = [exitCode EXCEPT ![p] = 0]
    /\ caught' = [caught EXCEPT ![p] = "none"]
    /\ writes' = [writes EXCEPT ![p] = <<>>]
    /\ unlinked' = [unlinked EXCEPT ![p] = <<>>]
    /\ crashed' = (crashed \/ caught[p] = "unlinkSync failed")
    /\ succeededFor' = IF Len(writes[p]) = 2 /\ caught[p] = "none"
                       THEN EnvName(options[p].environment) ELSE succeededFor
    /\ notFound' = (notFound \/ caught[p] \in LocateErrors)
    /\ UNCHANGED <<shared, predv>>

Next ==
    \E p \in Procs :
        \/ \E args \in ArgvSet : Start(p, args)
        \/ tryReadStateFile(p)
        \/ ParseOptions(p)
        \/ Decide(p)
        \/ Locate(p)
        \/ DryRunCheck(p)
        \/ DryRunDone(p)
        \/ WriteUndefined(p)
        \/ Unlink(p)
        \/ WriteFinal(p)
        \/ Terminate(p)

Spec == Init /\ [][Next]_vars

\* ------------------------------------------- evaluation of the predicates
PredDirs ==
    { <<>>,
      <<"/", "d">>,
      <<"/", "l", "i", "b">>,
      <<"/", "d", "/", "l", "i", "b">>,
      <<"/", "d", "/", "l", "i", "n", "u", "x", "-", "x", "8", "6", "-", "3", "2">>,
      <<"/", "d", "/", "l", "i", "b", "/", "s">>,
      <<"/", "d", "/", "m", "y", "l", "i", "b">>,
      <<"/", "d", "/", "l", "i", "n", "u", "x", "-", "x", "8", "6", "-", "6", "4">> }

TagChars == Digits \cup {"x", "_"}

PredNames ==
    { <<"/", "a", "_", c1, c2, ".", "n", "o", "d", "e">> : c1 \in TagChars, c2 \in TagChars }
    \cup { <<"/", "a", ".", "n", "o", "d", "e">>,
           <<"/", "r", "e", "a", "d", "m", "e">>,
           <<"/", "a", "4", "4", ".", "n", "o", "d", "e">>,
           <<"/", "a", "_", "4", "4", ".", "n", "o", "d">>,
           <<"/", "a", "_", "4", "4", "4", ".", "n", "o", "d", "e">> }

PredPaths == { d \o n : d \in PredDirs, n \in PredNames }

InitPred ==
    /\ stateFile = cStateNotTailored
    /\ stateFileAccess = "ok"
    /\ installed = FileIds
    /\ files = installed
    /\ InitLocals
    /\ crashed = FALSE
    /\ succeededFor = NoneYet
    /\ notFound = FALSE
    /\ fn \in PredPaths
    /\ penv \in EnvDefs
    /\ pres = "unset"

\* options.environment.deleteFilePredicate(fn)
ApplyPredicate ==
    /\ pres = "unset"
    /\ pres' = IF deleteFilePredicate(penv, fn) THEN "delete" ELSE "keep"
    /\ UNCHANGED <<fn, penv, shared, locals, ghosts>>

NextPred == ApplyPredicate

SpecPred == InitPred /\ [][NextPred]_vars

\* ------------------------------------------------------- claim vocabulary
Has(p, t) == \E i \in 1..Len(out[p]) : out[p][i].t = t

HasMsg(p, m) == \E i \in 1..Len(out[p]) : out[p][i] = m

ParseExit(p) == parseOptions(argv[p]).exit

Requested(p) == parseOptions(argv[p]).options.environment

\* the invocation got through tryReadStateFile and parseOptions to the decision table
EngineRan(p) ==
    /\ pc[p] \in {"locate", "dry", "undef", "delete", "exit"}
    /\ persistedTailoringState[p] # NoState
    /\ ParseExit(p) = "none"

\* the invocation entered the tailoring run of tailorModule
InTailoringRun(p) ==
    \/ pc[p] \in {"locate", "dry", "undef", "delete"}
    \/ /\ pc[p] = "exit"
       /\ \/ Has(p, "Tailoring npm module for environment")
          \/ caught[p] \in {"Could not locate 'oneagent-dependency' module", "scanFolder failed"}

NoMutationBy(p) == writes[p] = <<>> /\ unlinked[p] = <<>>

\* the row of the decision table of section 4.5 that invocation p must follow
C1_Row(p) ==
    (EngineRan(p) /\ persistedTailoringState[p] \in cStates) =>
        LET s == persistedTailoringState[p]
            env == Requested(p)
        IN
        CASE s = cStateUndefined ->
                /\ pc[p] = "exit"
                /\ Has(p, "ERROR undefined state, re-install")
          [] s = cStateNotTailored /\ env = EnvUndefined ->
                /\ pc[p] = "exit"
                /\ caught[p] = "no environment for tailoring specified."
          [] s = cStateNotTailored /\ env # EnvUndefined ->
                InTailoringRun(p)
          [] OTHER ->
                /\ pc[p] = "exit"
                /\ IF env # EnvUndefined /\ s = EnvName(env)
                   THEN HasMsg(p, Msg("already tailored", s, "", 0, FALSE))
                   ELSE \E i \in 1..Len(out[p]) :
                           /\ out[p][i].t = "ERROR already tailored, re-install to tailor"
                           /\ out[p][i].a = s

\* C1: for every state of the closed set and for an environment selected or
\* none, an invocation that reaches the decision table takes the action of the
\* table: Undefined -> re-install error; TailoredFor(X) = requested -> already
\* tailored; TailoredFor(X) # requested (also none requested) -> conflict error
\* naming X; NotTailored and none -> no environment error; NotTailored and E ->
\* tailoring run.
C1_DecisionTable == \A p \in Procs : C1_Row(p)

\* the rows the code does follow: all but TailoredFor(X) with no environment
\* selected, where reading options.environment.name throws
C1_TableWithEnvironment ==
    \A p \in Procs :
        ~(/\ persistedTailoringState[p] \in {cStateLambdaWithNode4, cStateLambdaWithNode6}
          /\ Requested(p) = EnvUndefined)
        => C1_Row(p)

C1_Witness ==
    \E p \in Procs :
        /\ pc[p] = "exit"
        /\ EngineRan(p)
        /\ persistedTailoringState[p] = cStateLambdaWithNode4
        /\ Requested(p) = EnvUndefined
        /\ caught[p] = "TypeError"

\* C2: a deletion that fails in a non-dry tailoring run leaves the state file
\* at Undefined; after that invocation no invocation writes the state file or
\* deletes a file, and every invocation that reaches the decision table
\* reports the undefined state, re-install error.
C2_CrashLeavesUndefined ==
    /\ \A p \in Procs : caught[p] = "unlinkSync failed" => stateFile = cStateUndefined
    /\ crashed =>
        /\ stateFile = cStateUndefined
        /\ \A p \in Procs :
            /\ NoMutationBy(p)
            /\ ~InTailoringRun(p)
            /\ (pc[p] = "exit" /\ ParseExit(p) = "none") =>
                   /\ Has(p, "ERROR undefined state, re-install")
                   /\ caught[p] = "none"

C2_Witness ==
    /\ crashed
    /\ \E p \in Procs :
        /\ pc[p] = "exit"
        /\ Requested(p) = cLambdaV6EnvDef
        /\ options[p].dryRun
        /\ Has(p, "ERROR undefined state, re-install")
        /\ files # installed

\* a successful non-dry tailoring run at its end
SucceededRun(p) ==
    /\ pc[p] = "exit"
    /\ ~options[p].dryRun
    /\ \E i \in 1..Len(out[p]) : out[p][i].t = "result" /\ out[p][i].b = "SUCCEEDED"

\* C3: a successful non-dry tailoring run writes the state file exactly twice,
\* Undefined and then the name of the environment; the first write comes
\* before the first deletion and the second after the last one, so a file is
\* only ever deleted while the state file holds Undefined.
C3_TwoWritesBracketDeletions ==
    /\ [](\A p \in Procs :
            SucceededRun(p) =>
                /\ writes[p] = <<cStateUndefined, EnvName(options[p].environment)>>
                /\ unlinked[p] = filesToDelete[p])
    /\ [][files' # files => (stateFile = cStateUndefined /\ stateFile' = cStateUndefined)]_vars
    /\ [][\A p \in Procs :
            (writes'[p] # writes[p] /\ pc[p] # "exit") =>
                /\ Len(writes[p]) = 0 => (unlinked[p] = <<>> /\ stateFile' = cStateUndefined)
                /\ Len(writes[p]) = 1 => (unlinked[p] = filesToDelete[p]
                                          /\ stateFile' = EnvName(options[p].environment))
                /\ Len(writes[p]) < 2]_vars

C3_Witness ==
    \E p \in Procs :
        /\ SucceededRun(p)
        /\ Len(unlinked[p]) >= 2
        /\ stateFile = EnvName(options[p].environment)

\* C4: an invocation with the dry-run flag never writes the state file and
\* never deletes a file: every step it takes leaves the state file and the set
\* of files as they were, whatever the state, the environment and the
\* candidate list, the empty one included.
C4_DryRunChangesNothing ==
    /\ [](\A p \in Procs : "--dryRun" \in Range(argv[p]) => NoMutationBy(p))
    /\ [][(\E p \in Procs : pc[p] # "idle" /\ "--dryRun" \in Range(argv[p]))
            => (stateFile' = stateFile /\ files' = files)]_vars

C4_Witness ==
    \E p \in Procs :
        /\ pc[p] = "exit"
        /\ "--dryRun" \in Range(argv[p])
        /\ Len(filesToDelete[p]) >= 2
        /\ HasMsg(p, Msg("result", EnvName(options[p].environment), "SUCCEEDED", 0, TRUE))

\* the dry run of an empty candidate list
C4_WitnessEmpty ==
    \E p \in Procs :
        /\ pc[p] = "exit"
        /\ "--dryRun" \in Range(argv[p])
        /\ filesToDelete[p] = <<>>
        /\ HasMsg(p, Msg("result", EnvName(options[p].environment), "SUCCEEDED", 0, TRUE))

\* C5: once a non-dry tailoring run for E has succeeded, the state file stays
\* at TailoredFor(E), no later invocation writes it or deletes a file, and a
\* later invocation that requests E reports already tailored.
C5_Idempotent ==
    succeededFor # NoneYet =>
        /\ stateFile = succeededFor
        /\ \A p \in Procs :
            /\ NoMutationBy(p)
            /\ (/\ pc[p] = "exit"
                /\ ParseExit(p) = "none"
                /\ Requested(p) # EnvUndefined
                /\ EnvName(Requested(p)) = succeededFor)
               => /\ HasMsg(p, Msg("already tailored", succeededFor, "", 0, FALSE))
                  /\ caught[p] = "none"

C5_Witness ==
    /\ succeededFor = cStateLambdaWithNode6
    /\ \E p \in Procs :
        /\ pc[p] = "exit"
        /\ Requested(p) = cLambdaV6EnvDef
        /\ ~options[p].dryRun
        /\ Has(p, "already tailored")

\* the state read at start is one from which no tailoring run starts
NoRunFrom(p) ==
    /\ persistedTailoringState[p] # NoState
    /\ \/ persistedTailoringState[p] # cStateNotTailored
       \/ Requested(p) = EnvUndefined

\* C6: an invocation that read an unknown token, Undefined or TailoredFor(X),
\* or that read NotTailored with no environment selected, deletes no file and
\* writes no state, whatever its command line.
C6_NoMutationOutsideRun ==
    /\ [](\A p \in Procs : NoRunFrom(p) => (NoMutationBy(p) /\ ~InTailoringRun(p)))
    /\ [][(\E p \in Procs : NoRunFrom(p))
            => (stateFile' = stateFile /\ files' = files)]_vars

C6_Witness ==
    \E p \in Procs :
        /\ pc[p] = "exit"
        /\ persistedTailoringState[p] = cStateLambdaWithNode4
        /\ options[p].environment = cLambdaV6EnvDef
        /\ ~options[p].dryRun
        /\ Has(p, "ERROR already tailored, re-install to tailor")

\* C7: the process exits with code 0 on the help flag (also the implied one of
\* an empty command line), on the status query and on every outcome of the
\* engine, handled errors included; it exits with a code other than 0 only when
\* an unrecognized flag was given.
C7_ExitCodes ==
    \A p \in Procs :
        pc[p] = "exit" =>
            /\ exitCode[p] # 0 => UnknownOption \in Range(argv[p])
            /\ (persistedTailoringState[p] # NoState /\ ParseExit(p) \in {"help", "state", "none"})
                   => exitCode[p] = 0

\* what the code does: the help flag exits with 1, like an unrecognized flag
C7_ExitCodesOfTheCode ==
    \A p \in Procs :
        pc[p] = "exit" =>
            exitCode[p] = IF persistedTailoringState[p] # NoState
                             /\ ParseExit(p) \in {"help", "unknown"}
                          THEN 1 ELSE 0

C7_Witness ==
    \E p \in Procs :
        /\ pc[p] = "exit"
        /\ argv[p] = <<"--help">>
        /\ exitCode[p] = 1

\* ------------------------------------------------- claims on the predicates
TagName(c1, c2) == <<"/", "a", "_", c1, c2, ".", "n", "o", "d", "e">>

\* the folders of PredDirs whose last segment is lib or linux-x86-32
LibDirs ==
    { <<"/", "l", "i", "b">>,
      <<"/", "d", "/", "l", "i", "b">>,
      <<"/", "d", "/", "l", "i", "n", "u", "x", "-", "x", "8", "6", "-", "3", "2">> }

KeptTag(e) == IF e = cLambdaV4EnvDef THEN <<"4", "6">> ELSE <<"4", "8">>

\* C8: for a file that is not in a lib or linux-x86-32 folder and whose name
\* ends in _NN.node with two digits NN, the predicate of EnvA is false for
\* NN = 46 and true for every other NN; the one of EnvB is false for NN = 48
\* and true for every other NN.
C8_AbiTagRule ==
    pres # "unset" =>
        \A d \in PredDirs \ LibDirs, c1 \in Digits, c2 \in Digits :
            fn = d \o TagName(c1, c2) =>
                (pres = "keep" <=> <<c1, c2>> = KeptTag(penv))

C8_Witness ==
    /\ pres = "delete"
    /\ penv = cLambdaV4EnvDef
    /\ fn = <<"/", "d">> \o TagName("3", "6")

C8_WitnessKept ==
    /\ pres = "keep"
    /\ penv = cLambdaV6EnvDef
    /\ fn = <<"/", "d", "/", "l", "i", "b", "/", "s">> \o TagName("4", "8")

\* C9: for every environment and every file in a lib or linux-x86-32 folder
\* the predicate is true, whatever the name of the file, the kept ABI tag
\* included.
C9_32BitPathRule ==
    pres # "unset" =>
        \A d \in LibDirs, n \in PredNames :
            fn = d \o n => pres = "delete"

C9_Witness ==
    /\ pres = "delete"
    /\ penv = cLambdaV6EnvDef
    /\ fn = <<"/", "d", "/", "l", "i", "n", "u", "x", "-", "x", "8", "6", "-", "3", "2">>
            \o TagName("4", "8")

\* C10: when the state file is missing or not readable and writable, the
\* invocation fails with the access error: it never gets a state, parses no
\* option, starts no tailoring run, deletes no file and leaves the state file
\* as it is, whatever its command line.
C10_NoAccessNoRun ==
    /\ [](stateFileAccess # "ok" =>
            /\ files = installed
            /\ \A p \in Procs :
                /\ persistedTailoringState[p] = NoState
                /\ pc[p] \in {"idle", "read", "exit"}
                /\ NoMutationBy(p)
                /\ pc[p] = "exit" =>
                       /\ caught[p] = "state file is not accessable"
                       /\ \E i \in 1..Len(out[p]) :
                              out[p][i].t = "result" /\ out[p][i].b = "FAILED"
                       /\ exitCode[p] = 0)
    /\ [][stateFileAccess # "ok" =>
            (stateFile' = stateFile /\ stateFileAccess' = stateFileAccess /\ files' = files)]_vars

C10_Witness ==
    \E p \in Procs :
        /\ stateFileAccess = "missing"
        /\ stateFile = cStateNotTailored
        /\ pc[p] = "exit"
        /\ argv[p] = <<"--AwsLambdaV4">>
        /\ caught[p] = "state file is not accessable"

\* ------------------------------------------------ claims on the command line
SettingFlags == {"--dryRun", "--AwsLambdaV4", "--AwsLambdaV6"}

EnginePcs == {"decide", "locate", "dry", "undef", "delete"}

\* the parser reaches an unrecognized flag: only flags that set an option
\* come before it
ReachesUnknown(args) ==
    \E i \in 1..Len(args) :
        /\ args[i] = UnknownOption
        /\ \A j \in 1..(i - 1) : args[j] \in SettingFlags

UnknownFlagReported(p) ==
    /\ HasMsg(p, Msg("unknown command line option", UnknownOption, "", 0, FALSE))
    /\ Has(p, "Usage")
    /\ exitCode[p] # 0

\* C11 as stated: an unrecognized flag at any position, together with any
\* other flags, makes the invocation print the error and the usage text and
\* exit with a code other than 0.
C11_UnknownFlagAnywhere ==
    \A p \in Procs :
        (pc[p] = "exit" /\ persistedTailoringState[p] # NoState
            /\ UnknownOption \in Range(argv[p]))
        => UnknownFlagReported(p)

\* C11 as the code has it: a command line with an unrecognized flag never
\* runs the engine (no state write, no deletion); the error, the usage text
\* and the exit code other than 0 come when the state file was read and no
\* --help or --state flag stands before the unrecognized one.
C11_UnknownFlagReached ==
    \A p \in Procs :
        UnknownOption \in Range(argv[p]) =>
            /\ NoMutationBy(p)
            /\ pc[p] \notin EnginePcs
            /\ (pc[p] = "exit" /\ persistedTailoringState[p] # NoState
                   /\ ReachesUnknown(argv[p]))
               => (UnknownFlagReported(p) /\ ~Has(p, "TAILORING STATE"))

C11_Witness ==
    \E p \in Procs :
        /\ pc[p] = "exit"
        /\ argv[p] = <<"--AwsLambdaV4", UnknownOption>>
        /\ stateFile = cStateNotTailored
        /\ installed # {}
        /\ UnknownFlagReported(p)

\* the command line of a status query: --state among flags that set options
StatusArgs(args) ==
    /\ "--state" \in Range(args)
    /\ Range(args) \subseteq SettingFlags \cup {"--state"}

\* C12: with --state among otherwise valid environment and dry-run flags the
\* invocation prints the persisted state and exits with 0 without running the
\* engine: no state write and no deletion, whatever the persisted state.
C12_StatusQuery ==
    \A p \in Procs :
        StatusArgs(argv[p]) =>
            /\ NoMutationBy(p)
            /\ pc[p] \notin EnginePcs
            /\ (pc[p] = "exit" /\ persistedTailoringState[p] # NoState) =>
                   /\ out[p] = << IF stateFile = cStateNotTailored
                                  THEN Msg("TAILORING STATE", "has not been tailored", "", 0, FALSE)
                                  ELSE Msg("TAILORING STATE", "has been tailored for", stateFile, 0, FALSE) >>
                   /\ exitCode[p] = 0
                   /\ caught[p] = "none"

C12_Witness ==
    \E p \in Procs :
        /\ pc[p] = "exit"
        /\ argv[p] = <<"--AwsLambdaV4", "--state">>
        /\ stateFile = cStateNotTailored
        /\ installed # {}
        /\ Has(p, "TAILORING STATE")

EnvFlags == {"--AwsLambdaV4", "--AwsLambdaV6"}

\* the environment the last environment flag of the command line names
LastEnv(args) ==
    IF Range(args) \cap EnvFlags = {} THEN EnvUndefined
    ELSE LET i == CHOOSE k \in 1..Len(args) :
                     /\ args[k] \in EnvFlags
                     /\ \A j \in (k + 1)..Len(args) : args[j] \notin EnvFlags
         IN IF args[i] = "--AwsLambdaV4" THEN cLambdaV4EnvDef ELSE cLambdaV6EnvDef

\* C14: the environment the decision table and the tailoring run use (the
\* predicate of the candidate list, the final state token, the summary) is the
\* one the last environment flag of the command line names.
C14_LastWins ==
    \A p \in Procs :
        (pc[p] \in EnginePcs \cup {"exit"} /\ persistedTailoringState[p] # NoState
            /\ ParseExit(p) = "none")
        => LET e == LastEnv(argv[p]) IN
           /\ options[p].environment = e
           /\ pc[p] \in {"dry", "undef", "delete"} =>
                  Range(filesToDelete[p]) =
                      {f \in files \cup Range(unlinked[p]) : deleteFilePredicate(e, FilePath(f))}
           /\ SucceededRun(p) =>
                  /\ stateFile = EnvName(e)
                  /\ HasMsg(p, Msg("result", EnvName(e), "SUCCEEDED", 0, FALSE))
           /\ (pc[p] = "exit" /\ e # EnvUndefined
                  /\ persistedTailoringState[p] \in {cStateLambdaWithNode4, cStateLambdaWithNode6})
              => (Has(p, "already tailored") <=> persistedTailoringState[p] = EnvName(e))

C14_Witness ==
    \E p \in Procs :
        /\ argv[p] = <<"--AwsLambdaV4", "--AwsLambdaV6">>
        /\ SucceededRun(p)
        /\ stateFile = cStateLambdaWithNode6
        /\ 1 \in Range(unlinked[p])
        /\ 2 \in files

\* the invocation ended in one of the error kinds of section 7
ErrorEnded(p) ==
    /\ pc[p] = "exit"
    /\ \/ caught[p] # "none"
       \/ Has(p, "ERROR unknown tailoring state")
       \/ Has(p, "ERROR undefined state, re-install")
       \/ Has(p, "ERROR already tailored, re-install to tailor")

\* the summary line of a failure, for the command line of the invocation
FailedSummary(args) ==
    Msg("result",
        IF LastEnv(args) = EnvUndefined THEN "" ELSE EnvName(LastEnv(args)),
        "FAILED", 0, "--dryRun" \in Range(args))

\* C15: every error kind (access error, inconsistent or Undefined state,
\* conflict, dependency not found, no environment selected, deletion failure)
\* ends the invocation with a summary line that reports FAILED, names the
\* selected environment and carries the dry-run marker when dry-run is set.
C15_ErrorSummary ==
    \A p \in Procs :
        (ErrorEnded(p) /\ Range(argv[p]) \subseteq SettingFlags)
        => HasMsg(p, FailedSummary(argv[p]))

\* what the code does: the summary comes with the errors thrown after
\* parseOptions; the access error is thrown before the options are set, and the
\* first three rows of the decision table print their ERROR line only
C15_SummaryOfThrownErrors ==
    \A p \in Procs :
        (ErrorEnded(p) /\ Range(argv[p]) \subseteq SettingFlags) =>
            IF caught[p] = "state file is not accessable"
            THEN out[p][Len(out[p])] = Msg("result", "", "FAILED", 0, FALSE)
            ELSE IF caught[p] # "none"
            THEN out[p][Len(out[p])] = FailedSummary(argv[p])
            ELSE ~Has(p, "result")

C15_Witness ==
    \E p \in Procs :
        /\ ErrorEnded(p)
        /\ argv[p] = <<"--AwsLambdaV4">>
        /\ persistedTailoringState[p] = cStateUndefined
        /\ ~Has(p, "result")

\* C16: when the dependency folder cannot be located or scanned, the invocation
\* ends before the Undefined commit point: the state file still holds
\* NotTailored, no file is deleted, and a later invocation may still proceed
\* to a tailoring run.
C16_AbortBeforeCommit ==
    \A p \in Procs :
        caught[p] \in LocateErrors =>
            /\ pc[p] = "exit"
            /\ persistedTailoringState[p] = cStateNotTailored
            /\ stateFile = cStateNotTailored
            /\ stateFileAccess = "ok"
            /\ NoMutationBy(p)
            /\ files = installed

\* a tailoring run that succeeds after an invocation that could not locate
C16_Witness ==
    /\ notFound
    /\ \E p \in Procs :
        /\ SucceededRun(p)
        /\ unlinked[p] # <<>>
        /\ stateFile = EnvName(options[p].environment)

\* the files of the deleting file lines of the log, in the order of the log
RECURSIVE LoggedFiles(_)
LoggedFiles(o) ==
    IF o = <<>> THEN <<>>
    ELSE (IF Head(o).t = "  deleting file" THEN <<Head(o).f>> ELSE <<>>)
         \o LoggedFiles(Tail(o))

\* C17: when a deletion fails, the files deleted before it are a prefix of the
\* candidate list and each has its deleting file line, in that order; the log
\* ends with the line of the failing candidate; the candidates after it are
\* neither logged nor deleted.  While the run deletes, the log holds exactly
\* the files deleted so far.
C17_LogCompleteAtFailure ==
    \A p \in Procs :
        /\ (pc[p] = "delete" /\ caught[p] = "none") =>
               LoggedFiles(out[p]) = unlinked[p]
        /\ caught[p] = "unlinkSync failed" =>
               /\ pc[p] = "exit"
               /\ \E k \in 1..Len(filesToDelete[p]) :
                    /\ unlinked[p] = SubSeq(filesToDelete[p], 1, k - 1)
                    /\ LoggedFiles(out[p]) = SubSeq(filesToDelete[p], 1, k)
                    /\ \A j \in (k + 1)..Len(filesToDelete[p]) :
                         /\ filesToDelete[p][j] \in files
                         /\ filesToDelete[p][j] \notin Range(LoggedFiles(out[p]))

\* the second of three deletions fails
C17_Witness ==
    \E p \in Procs :
        /\ caught[p] = "unlinkSync failed"
        /\ Len(filesToDelete[p]) = 3
        /\ Len(unlinked[p]) = 1
        /\ filesToDelete[p][3] \in files

TailoredTokens == {cStateLambdaWithNode4, cStateLambdaWithNode6}

\* C18: over any sequence of invocations the tool writes only Undefined or a
\* TailoredFor token; the state file only goes from NotTailored to Undefined
\* and from Undefined to TailoredFor(E); an invocation that finds Undefined, a
\* TailoredFor token or an unknown token leaves it as it is.
C18_StateMonotonic ==
    /\ [](\A p \in Procs : Range(writes[p]) \subseteq {cStateUndefined} \cup TailoredTokens)
    /\ [][stateFile' # stateFile =>
            \/ stateFile = cStateNotTailored /\ stateFile' = cStateUndefined
            \/ stateFile = cStateUndefined /\ stateFile' \in TailoredTokens]_vars
    /\ [](\A p \in Procs :
            persistedTailoringState[p] \notin {NoState, cStateNotTailored} =>
                (stateFile = persistedTailoringState[p] /\ NoMutationBy(p)))

C18_Witness ==
    \E p \in Procs :
        /\ pc[p] = "exit"
        /\ persistedTailoringState[p] = cStateNotTailored
        /\ writes[p] = <<cStateUndefined, cStateLambdaWithNode4>>
        /\ stateFile = cStateLambdaWithNode4

\* ------------------------------------ invocations on a fresh installation
InitFresh ==
    /\ Init
    /\ stateFile = cStateNotTailored

SpecFresh == InitFresh /\ [][Next]_vars

\* C19: from NotTailored, with invocations one after the other: while the state
\* file holds NotTailored no file is deleted; when it holds TailoredFor(E) the
\* deleted files are exactly the files E's predicate selects; an invocation
\* that deletes finds no file deleted by another one.
C19_StateMatchesFiles ==
    /\ files \subseteq installed
    /\ stateFile \in cStates
    /\ stateFile = cStateNotTailored => files = installed
    /\ \A e \in EnvDefs :
          stateFile = EnvName(e) =>
              installed \ files = {f \in installed : deleteFilePredicate(e, FilePath(f))}
    /\ \A p \in Procs :
          unlinked[p] # <<>> => installed \ files = Range(unlinked[p])

C19_Witness ==
    /\ stateFile = cStateLambdaWithNode6
    /\ installed = FileIds
    /\ files = {2}
    /\ \E p \in Procs : pc[p] = "exit" /\ Has(p, "already tailored")

\* ------------------------------------------------- concurrent invocations
\* the command lines of the concurrent invocations
ArgvConc ==
    { <<"--AwsLambdaV4">>, <<"--AwsLambdaV6">>,
      <<"--dryRun", "--AwsLambdaV4">>, <<"--dryRun", "--AwsLambdaV6">> }

InitConc ==
    /\ stateFile = cStateNotTailored
    /\ stateFileAccess = "ok"
    /\ installed = FileIds
    /\ files = installed
    /\ InitLocals
    /\ crashed = FALSE
    /\ succeededFor = NoneYet
    /\ notFound = FALSE
    /\ fn = <<>> /\ penv = cLambdaV4EnvDef /\ pres = "unset"

\* an invocation starts whatever the other one does: the script takes no lock
StartConc(p, args) ==
    /\ pc[p] = "idle"
    /\ pc' = [pc EXCEPT ![p] = "read"]
    /\ argv' = [argv EXCEPT ![p] = args]
    /\ UNCHANGED <<options, persistedTailoringState, filesToDelete, idx, out,
                   exitCode, caught, writes, unlinked>>
    /\ UNCHANGED <<shared, ghosts, predv>>

\* each invocation runs once; what it did stays visible after its end
NextConc ==
    \E p \in Procs :
        \/ \E args \in ArgvConc : StartConc(p, args)
        \/ tryReadStateFile(p)
        \/ ParseOptions(p)
        \/ Decide(p)
        \/ Locate(p)
        \/ DryRunCheck(p)
        \/ DryRunDone(p)
        \/ WriteUndefined(p)
        \/ Unlink(p)
        \/ WriteFinal(p)

SpecConc == InitConc /\ [][NextConc]_vars

\* C13: concurrent invocations are not serialized: no step of an invocation
\* ever waits for the other invocation, wherever that one stands (also between
\* its read and its writes of the state file, and inside its deletions).
C13_NotSerialized ==
    \A p \in Procs :
        /\ pc[p] = "read" => ENABLED tryReadStateFile(p)
        /\ pc[p] = "parse" => ENABLED ParseOptions(p)
        /\ pc[p] = "decide" => ENABLED Decide(p)
        /\ pc[p] = "locate" => ENABLED Locate(p)
        /\ pc[p] = "dry" => ENABLED (DryRunCheck(p) \/ DryRunDone(p))
        /\ pc[p] = "undef" => ENABLED WriteUndefined(p)
        /\ pc[p] = "delete" => ENABLED (Unlink(p) \/ WriteFinal(p))

\* both invocations read NotTailored and entered the destructive phase; p ended
\* with TailoredFor(E) in the state file although q deleted a file that E
\* preserves, and q failed to delete a file that p had already removed
C13_Witness ==
    \E p \in Procs, q \in Procs :
        /\ p # q
        /\ pc[p] = "exit" /\ pc[q] = "exit"
        /\ persistedTailoringState[p] = cStateNotTailored
        /\ persistedTailoringState[q] = cStateNotTailored
        /\ SucceededRun(p)
        /\ stateFile = EnvName(options[p].environment)
        /\ \E f \in Range(unlinked[q]) :
               ~deleteFilePredicate(options[p].environment, FilePath(f))
        /\ caught[q] = "unlinkSync failed"
        /\ filesToDelete[q][idx[q]] \in Range(unlinked[p])

\* both invocations have read NotTailored before either has written
C13_WitnessBothRead ==
    \E p \in Procs, q \in Procs :
        /\ p # q
        /\ pc[p] = "undef" /\ pc[q] = "undef"
        /\ stateFile = cStateNotTailored

====
